---- MODULE Spec2Model ----
(***************************************************************************)
(* Model of day09_viz.py: the search for the farthest (Manhattan) pair of  *)
(* polygon vertices whose axis-aligned rectangle lies inside the polygon.  *)
(* Vertex indices, ranks and heap positions are 0-based as in the source;  *)
(* TLA+ sequences are 1-based, so element k of a Python list L is L[k+1].  *)
(***************************************************************************)
EXTENDS Integers, Sequences, FiniteSets, TLC

VARIABLES
    points,                \* self.points: the vertex list
    pc,                    \* position of the run
    error,                 \* exception that ended the run ("" when none)
    xs, ys,                \* compressed axes
    x_index, y_index,      \* coordinate -> rank
    vertical_edges,        \* x -> list of (min_y, max_y)
    inside,                \* inside grid
    prefix,                \* prefix-sum table
    cheb_points,           \* (u, v) per vertex
    by_u, by_v,            \* vertex indices sorted by u, by v
    heap,                  \* self.heap, array layout of heapq
    seen,                  \* self.seen
    fast_mode,             \* self.fast_mode
    iteration_count,       \* local of run_algorithm
    candidates_considered, \* self.candidates_considered
    total_candidates,      \* self.total_candidates
    result,                \* candidate handed to animate_success (<<>> when none)
    pops,                  \* observation: every candidate popped by the loop, in order
    validated,             \* observation: every pair handed to is_valid_rectangle by the loop
    last_step,             \* observation: what the last loop iteration did
    query,                 \* ranks (i1, j1, i2, j2) of the last direct call of count_inside
    answer,                \* what a direct call of count_inside or manhattan_distance returned
    tagged_heap            \* observation: self.heap with each entry numbered by its push

vars == <<points, pc, error, xs, ys, x_index, y_index, vertical_edges, inside,
          prefix, cheb_points, by_u, by_v, heap, seen, fast_mode,
          iteration_count, candidates_considered, total_candidates, result,
          pops, validated, last_step, query, answer, tagged_heap>>

\* the variables of a direct call of count_inside
probe == <<query, answer>>

built == <<xs, ys, x_index, y_index, vertical_edges, inside, prefix,
           cheb_points, by_u, by_v>>

----------------------------------------------------------------------------
(* Bounds of the input space and program constants *)

MaxCoord == 2
MaxN == 3
MaxCellsX == 3
MaxCellsY == 2
MaxAbs == 2

INTRO_ITERATIONS == 3
ANIMATE_EVERY_N_FAST == 20
LARGE_INPUT_THRESHOLD == 100

----------------------------------------------------------------------------
(* Generic helpers standing for Python built-ins *)

Abs(a) == IF a < 0 THEN -a ELSE a

Min2(a, b) == IF a < b THEN a ELSE b

Max2(a, b) == IF a > b THEN a ELSE b

Range(s) == {s[k] : k \in DOMAIN s}

RECURSIVE SortedSet(_)
\* sorted(set(...)): ascending sequence of the distinct values
SortedSet(S) ==
    IF S = {} THEN <<>>
    ELSE LET m == CHOOSE a \in S : \A b \in S : a <= b
         IN <<m>> \o SortedSet(S \ {m})

RECURSIVE StableInsert_before_equal(_, _, _)
\* position of idx before the elements whose key equals its own
StableInsert_before_equal(sorted, idx, key) ==
    IF sorted = <<>> THEN <<idx>>
    ELSE IF key[idx + 1] <= key[Head(sorted) + 1]
         THEN <<idx>> \o sorted
         ELSE <<Head(sorted)>> \o StableInsert_before_equal(Tail(sorted), idx, key)

RECURSIVE StableInsert(_, _, _)
\* position of idx in a key-sorted list, after every element whose key is <= its own
StableInsert(sorted, idx, key) ==
    IF sorted = <<>> THEN <<idx>>
    ELSE IF key[idx + 1] < key[Head(sorted) + 1]
         THEN <<idx>> \o sorted
         ELSE <<Head(sorted)>> \o StableInsert(Tail(sorted), idx, key)

RECURSIVE SortedByKeyUpTo(_, _)
\* sorted(range(k), key=...): Python's sort is stable
SortedByKeyUpTo(k, key) ==
    IF k = 0 THEN <<>>
    ELSE StableInsert(SortedByKeyUpTo(k - 1, key), k - 1, key)

----------------------------------------------------------------------------
(* Module-level functions of day09_viz.py *)

\* the x values as they come, without sorted(set(...))
compress_xs_unsorted(pts) == [k \in DOMAIN pts |-> pts[k][1]]

compress_xs(pts) == SortedSet({pts[k][1] : k \in DOMAIN pts})

compress_ys(pts) == SortedSet({pts[k][2] : k \in DOMAIN pts})

\* {v: i for i, v in enumerate(axis)}
index_of(axis) ==
    [v \in Range(axis) |-> (CHOOSE k \in DOMAIN axis : axis[k] = v) - 1]

RECURSIVE edges_at(_, _, _)
\* the (min_y, max_y) ranges appended under key x by iterations i..n-1
edges_at(pts, x, i) ==
    LET n == Len(pts) IN
    IF i >= n THEN <<>>
    ELSE LET p1 == pts[i + 1]
             p2 == pts[((i + 1) % n) + 1]
         IN  IF p1[1] = p2[1] /\ p1[1] = x
             THEN <<<<Min2(p1[2], p2[2]), Max2(p1[2], p2[2])>>>> \o edges_at(pts, x, i + 1)
             ELSE edges_at(pts, x, i + 1)

build_vertical_edges(pts) ==
    LET n == Len(pts)
        keys == {pts[k][1] : k \in {k \in 1..n : pts[k][1] = pts[(k % n) + 1][1]}}
    IN  [x \in keys |-> edges_at(pts, x, 0)]

RECURSIVE crossings_in_closed_span(_, _)
\* crossings_in with the span closed at max_y
crossings_in_closed_span(ranges, py) ==
    IF ranges = <<>> THEN 0
    ELSE (IF py >= Head(ranges)[1] /\ py <= Head(ranges)[2] THEN 1 ELSE 0)
         + crossings_in_closed_span(Tail(ranges), py)

RECURSIVE crossings_in(_, _)
crossings_in(ranges, py) ==
    IF ranges = <<>> THEN 0
    ELSE (IF py >= Head(ranges)[1] /\ py < Head(ranges)[2] THEN 1 ELSE 0)
         + crossings_in(Tail(ranges), py)

RECURSIVE crossings_over(_, _, _, _)
crossings_over(keys, ve, px, py) ==
    IF keys = {} THEN 0
    ELSE LET x == CHOOSE k \in keys : TRUE
         IN  (IF x > px THEN crossings_in(ve[x], py) ELSE 0)
             + crossings_over(keys \ {x}, ve, px, py)

is_cell_inside(cell_x, cell_y, axs, ays, ve) ==
    LET px == axs[cell_x + 1]
        py == ays[cell_y + 1]
        crossings == crossings_over(DOMAIN ve, ve, px, py)
    IN  crossings % 2 = 1

build_inside_grid(axs, ays, ve) ==
    LET num_cells_x == Len(axs) - 1
        num_cells_y == Len(ays) - 1
    IN  [i \in 1..num_cells_x |->
            [j \in 1..num_cells_y |-> is_cell_inside(i - 1, j - 1, axs, ays, ve)]]

RECURSIVE prefix_row(_, _, _, _)
\* the inner loop over j: extends row i+1 (so far `row`) up to column num_cells_y
prefix_row(prev, row, cells, j) ==
    IF j >= Len(cells) THEN row
    ELSE prefix_row(prev,
                    Append(row, prev[j + 2] + row[j + 1] - prev[j + 1]
                                + (IF cells[j + 1] THEN 1 ELSE 0)),
                    cells, j + 1)

RECURSIVE prefix_rows(_, _, _)
\* the outer loop over i
prefix_rows(table, grid, i) ==
    IF i >= Len(grid) THEN table
    ELSE prefix_rows(Append(table, prefix_row(table[i + 1], <<0>>, grid[i + 1], 0)),
                     grid, i + 1)

build_prefix_sums(grid) ==
    LET num_cells_x == Len(grid)
        num_cells_y == IF grid # <<>> THEN Len(grid[1]) ELSE 0
    IN  prefix_rows(<<[j \in 1..(num_cells_y + 1) |-> 0]>>, grid, 0)

\* count_inside without the term that adds the doubly subtracted corner back
count_inside_no_corner(i1, j1, i2, j2, table) ==
    table[i2 + 1][j2 + 1] - table[i1 + 1][j2 + 1] - table[i2 + 1][j1 + 1]

count_inside(i1, j1, i2, j2, table) ==
    table[i2 + 1][j2 + 1] - table[i1 + 1][j2 + 1] - table[i2 + 1][j1 + 1]
        + table[i1 + 1][j1 + 1]

\* v computed like u
chebyshev_transform_v_copies_u(x, y) == <<x + y, x + y>>

\* u and v exchanged
chebyshev_transform_swapped(x, y) == <<x - y, x + y>>

chebyshev_transform(x, y) == <<x + y, x - y>>

\* the distance taken from the u coordinates alone
manhattan_distance_from_u(p1, p2) == Abs((p1[1] + p1[2]) - (p2[1] + p2[2]))

manhattan_distance(p1, p2) == Abs(p1[1] - p2[1]) + Abs(p1[2] - p2[2])

\* dataclass Candidate
Candidate(distance, i, j, source, left, right) ==
    [distance |-> distance, i |-> i, j |-> j, source |-> source,
     left |-> left, right |-> right]

\* Candidate.__lt__: larger distance sorts first
candidate_lt(a, b) == a.distance > b.distance

----------------------------------------------------------------------------
(* heapq on a list, as called at heappush / heappop *)

RECURSIVE siftdown_from(_, _, _, _)
siftdown_from(h, startpos, pos, newitem) ==
    IF pos > startpos
    THEN LET parentpos == (pos - 1) \div 2
             parent == h[parentpos + 1]
         IN  IF candidate_lt(newitem, parent)
             THEN siftdown_from([h EXCEPT ![pos + 1] = parent], startpos, parentpos, newitem)
             ELSE [h EXCEPT ![pos + 1] = newitem]
    ELSE [h EXCEPT ![pos + 1] = newitem]

siftdown(h, startpos, pos) == siftdown_from(h, startpos, pos, h[pos + 1])

RECURSIVE siftup_from(_, _, _, _)
siftup_from(h, startpos, pos, newitem) ==
    LET endpos == Len(h)
        childpos == 2 * pos + 1
        rightpos == childpos + 1
        c == IF rightpos < endpos /\ ~candidate_lt(h[childpos + 1], h[rightpos + 1])
             THEN rightpos ELSE childpos
    IN  IF childpos < endpos
        THEN siftup_from([h EXCEPT ![pos + 1] = h[c + 1]], startpos, c, newitem)
        ELSE siftdown([h EXCEPT ![pos + 1] = newitem], startpos, pos)

siftup(h, pos) == siftup_from(h, pos, pos, h[pos + 1])

heappush(h, item) == siftdown(Append(h, item), 0, Len(h))

\* the item heappop returns
heappop_item(h) == IF Len(h) > 1 THEN h[1] ELSE h[Len(h)]

\* the list heappop leaves
heappop_rest(h) ==
    LET lastelt == h[Len(h)]
        rest == SubSeq(h, 1, Len(h) - 1)
    IN  IF rest # <<>> THEN siftup([rest EXCEPT ![1] = lastelt], 0) ELSE rest

----------------------------------------------------------------------------
(* Methods of Day09Visualization *)

is_large_input == Len(points) > LARGE_INPUT_THRESHOLD

\* _add_candidate also refusing a pair that is already queued in the heap
AddCandidate_unless_queued(h, sn, left, right, source, sorted_arr) ==
    IF left < right
    THEN LET i == sorted_arr[left + 1]
             j == sorted_arr[right + 1]
             pair == <<Min2(i, j), Max2(i, j)>>
         IN  IF pair \notin sn /\ ~\E k \in DOMAIN h : <<h[k].i, h[k].j>> = pair
             THEN heappush(h, Candidate(manhattan_distance(points[i + 1], points[j + 1]),
                                        pair[1], pair[2], source, left, right))
             ELSE h
    ELSE h

\* self._add_candidate: the heap after the call (seen set sn, heap h)
AddCandidate(h, sn, left, right, source, sorted_arr) ==
    IF left < right
    THEN LET i == sorted_arr[left + 1]
             j == sorted_arr[right + 1]
             pair == <<Min2(i, j), Max2(i, j)>>
         IN  IF pair \notin sn
             THEN heappush(h, Candidate(manhattan_distance(points[i + 1], points[j + 1]),
                                        pair[1], pair[2], source, left, right))
             ELSE h
    ELSE h

\* is_valid_rectangle without its early return for a shared x or y
is_valid_rectangle_no_early_return(i, j) ==
    LET x1 == points[i + 1][1]
        y1 == points[i + 1][2]
        x2 == points[j + 1][1]
        y2 == points[j + 1][2]
        i1 == x_index[Min2(x1, x2)]
        i2 == x_index[Max2(x1, x2)]
        j1 == y_index[Min2(y1, y2)]
        j2 == y_index[Max2(y1, y2)]
    IN  count_inside(i1, j1, i2, j2, prefix) = (i2 - i1) * (j2 - j1)

\* is_valid_rectangle comparing the two counts with <= instead of ==
is_valid_rectangle_at_most(i, j) ==
    LET x1 == points[i + 1][1]
        y1 == points[i + 1][2]
        x2 == points[j + 1][1]
        y2 == points[j + 1][2]
        i1 == x_index[Min2(x1, x2)]
        i2 == x_index[Max2(x1, x2)]
        j1 == y_index[Min2(y1, y2)]
        j2 == y_index[Max2(y1, y2)]
        total_cells == (i2 - i1) * (j2 - j1)
        inside_cells == count_inside(i1, j1, i2, j2, prefix)
    IN  IF x1 = x2 \/ y1 = y2 THEN FALSE ELSE inside_cells <= total_cells

is_valid_rectangle(i, j) ==
    LET x1 == points[i + 1][1]
        y1 == points[i + 1][2]
        x2 == points[j + 1][1]
        y2 == points[j + 1][2]
        i1 == x_index[Min2(x1, x2)]
        i2 == x_index[Max2(x1, x2)]
        j1 == y_index[Min2(y1, y2)]
        j2 == y_index[Max2(y1, y2)]
        total_cells == (i2 - i1) * (j2 - j1)
        inside_cells == count_inside(i1, j1, i2, j2, prefix)
    IN  IF x1 = x2 \/ y1 = y2 THEN FALSE ELSE inside_cells = total_cells

\* entries of self.prefix that one call of is_valid_rectangle reads: none when it
\* returns at line 962, the four corners of count_inside otherwise
prefix_queries(i, j) ==
    IF points[i + 1][1] = points[j + 1][1] \/ points[i + 1][2] = points[j + 1][2]
    THEN 0
    ELSE 4

\* the entry _add_candidate pushes, numbered: the heap of numbered entries after
\* the call that is push number seq if it pushes
TaggedAdd(th, sn, left, right, source, sorted_arr, seq) ==
    IF left < right
    THEN LET i == sorted_arr[left + 1]
             j == sorted_arr[right + 1]
             pair == <<Min2(i, j), Max2(i, j)>>
         IN  IF pair \notin sn
             THEN heappush(th, [distance |-> manhattan_distance(points[i + 1], points[j + 1]),
                                i |-> pair[1], j |-> pair[2], source |-> source,
                                left |-> left, right |-> right, seq |-> seq])
             ELSE th
    ELSE th

\* the two calls of _add_candidate of an expansion, on the numbered heap; popped
\* is the number of pops made so far
tagged_expand(th, sn, candidate, popped) ==
    LET arr == IF candidate.source = "u" THEN by_u ELSE by_v
        th1 == TaggedAdd(th, sn, candidate.left + 1, candidate.right, candidate.source,
                         arr, popped + Len(th))
    IN  TaggedAdd(th1, sn, candidate.left, candidate.right - 1, candidate.source,
                  arr, popped + Len(th1))

\* the ordering a candidate's source names
sorted_arr_of(candidate) == IF candidate.source = "u" THEN by_u ELSE by_v

\* the loop without its `if pair in self.seen: continue`
already_seen_ignored(pair, sn) == FALSE

\* `if pair in self.seen: continue`
already_seen(pair, sn) == pair \in sn

\* the expansion taking the left extreme off the list it reads (sorted_arr.pop(0))
ordering_after_expansion_popped(arr) == Tail(arr)

\* self.by_u or self.by_v after an expansion: the two calls of _add_candidate index
\* the list and leave it as it is
ordering_after_expansion(arr) == arr

\* fast path of run_algorithm: the two pushes
expand_fast(h, sn, candidate) ==
    LET arr == sorted_arr_of(candidate)
        h1 == AddCandidate(h, sn, candidate.left + 1, candidate.right, candidate.source, arr)
    IN  AddCandidate(h1, sn, candidate.left, candidate.right - 1, candidate.source, arr)

\* animate_frontier_expansion pushing (left, right-1) before (left+1, right)
animate_frontier_expansion_right_first(h, sn, candidate) ==
    LET arr == sorted_arr_of(candidate)
        left == candidate.left
        right == candidate.right
        h1 == IF left < right - 1
              THEN AddCandidate(h, sn, left, right - 1, candidate.source, arr)
              ELSE h
    IN  IF left + 1 < right
        THEN AddCandidate(h1, sn, left + 1, right, candidate.source, arr)
        ELSE h1

\* animate_frontier_expansion: the pushes it makes between its animations
animate_frontier_expansion(h, sn, candidate) ==
    LET arr == sorted_arr_of(candidate)
        left == candidate.left
        right == candidate.right
        h1 == IF left + 1 < right
              THEN AddCandidate(h, sn, left + 1, right, candidate.source, arr)
              ELSE h
    IN  IF left < right - 1
        THEN AddCandidate(h1, sn, left, right - 1, candidate.source, arr)
        ELSE h1

\* the local add_candidate of precompute_animation_count
dry_add_candidate(h, sn, left, right, source, sorted_arr) ==
    IF left < right
    THEN LET i == sorted_arr[left + 1]
             j == sorted_arr[right + 1]
             pair == <<Min2(i, j), Max2(i, j)>>
         IN  IF pair \notin sn
             THEN heappush(h, Candidate(manhattan_distance(points[i + 1], points[j + 1]),
                                        pair[1], pair[2], source, left, right))
             ELSE h
    ELSE h

RECURSIVE dry_loop_counting_skips(_, _, _)
\* the dry run counting a popped pair before it tests whether the pair was seen
dry_loop_counting_skips(h, sn, processed) ==
    IF h = <<>> THEN processed
    ELSE LET candidate == heappop_item(h)
             rest == heappop_rest(h)
             pair == <<candidate.i, candidate.j>>
             arr == sorted_arr_of(candidate)
         IN  IF pair \in sn THEN dry_loop_counting_skips(rest, sn, Append(processed, pair))
             ELSE IF is_valid_rectangle(candidate.i, candidate.j)
                  THEN Append(processed, pair)
                  ELSE dry_loop_counting_skips(
                         dry_add_candidate(
                           dry_add_candidate(rest, sn \cup {pair}, candidate.left + 1,
                                             candidate.right, candidate.source, arr),
                           sn \cup {pair}, candidate.left, candidate.right - 1,
                           candidate.source, arr),
                         sn \cup {pair}, Append(processed, pair))

RECURSIVE dry_loop(_, _, _)
\* the while loop of precompute_animation_count; the sequence of pairs it processes
dry_loop(h, sn, processed) ==
    IF h = <<>> THEN processed
    ELSE LET candidate == heappop_item(h)
             rest == heappop_rest(h)
             pair == <<candidate.i, candidate.j>>
             arr == sorted_arr_of(candidate)
         IN  IF pair \in sn THEN dry_loop(rest, sn, processed)
             ELSE IF is_valid_rectangle(candidate.i, candidate.j)
                  THEN Append(processed, pair)
                  ELSE dry_loop(
                         dry_add_candidate(
                           dry_add_candidate(rest, sn \cup {pair}, candidate.left + 1,
                                             candidate.right, candidate.source, arr),
                           sn \cup {pair}, candidate.left, candidate.right - 1,
                           candidate.source, arr),
                         sn \cup {pair}, Append(processed, pair))

\* pairs processed by the dry run, in order
dry_run_pairs ==
    LET n == Len(points)
        h0 == dry_add_candidate(
                dry_add_candidate(<<>>, {}, 0, n - 1, "u", by_u), {}, 0, n - 1, "v", by_v)
    IN  dry_loop(h0, {}, <<>>)

\* total_candidates as returned by precompute_animation_count
precompute_animation_count == Len(dry_run_pairs)

----------------------------------------------------------------------------
(* Inputs: what parse_polygon can deliver *)

Coords == 0..MaxCoord

Vertex == Coords \X Coords

\* every vertex list of at most MaxN lattice points with coordinates in Coords
ShortLists == UNION {[1..n -> Vertex] : n \in 0..MaxN}

\* Scenario A: the square
SquareA == <<<<0, 0>>, <<4, 0>>, <<4, 4>>, <<0, 4>>>>

\* Scenario B: a square with the top right quarter removed
LShapeB == <<<<0, 0>>, <<4, 0>>, <<4, 2>>, <<2, 2>>, <<2, 4>>, <<0, 4>>>>

\* a rectangle with a notch cut into its bottom edge
NotchPolygon ==
    <<<<0, 0>>, <<0, 2>>, <<4, 2>>, <<4, 0>>, <<2, 0>>, <<2, 1>>, <<1, 1>>, <<1, 0>>>>

\* a rectangle with a tooth on its bottom edge and a step at its bottom right
ToothPolygon ==
    <<<<0, 1>>, <<1, 1>>, <<1, 2>>, <<2, 2>>, <<2, 1>>, <<3, 1>>, <<3, 0>>, <<4, 0>>,
      <<4, 3>>, <<0, 3>>>>

\* an L: a 3x3 square with an arm of height 1 reaching to x = 6
LongArmPolygon == <<<<0, 0>>, <<6, 0>>, <<6, 1>>, <<3, 1>>, <<3, 3>>, <<0, 3>>>>

Catalogue == {SquareA, LShapeB, NotchPolygon, ToothPolygon, LongArmPolygon}

\* the same boundary read from another starting vertex
Rotate(poly, k) == [m \in 1..Len(poly) |-> poly[((m - 1 + k) % Len(poly)) + 1]]

\* the same boundary read in the other direction
Reverse(poly) == [m \in 1..Len(poly) |-> poly[Len(poly) + 1 - m]]

Polygons ==
    UNION {{Rotate(p, k) : k \in 0..(Len(p) - 1)} \cup
           {Rotate(Reverse(p), k) : k \in 0..(Len(p) - 1)} : p \in Catalogue}

\* a closed axis-aligned path that runs back over its own edge (not a simple polygon)
OverlapPath == <<<<1, 0>>, <<1, 2>>, <<1, 1>>, <<0, 1>>, <<0, 2>>, <<0, 0>>>>

Inputs == ShortLists \cup Polygons \cup {OverlapPath}

----------------------------------------------------------------------------
(* The run: construct, then run_algorithm *)

Init ==
    /\ points \in Inputs
    /\ pc = "construct"
    /\ error = ""
    /\ xs = <<>> /\ ys = <<>>
    /\ x_index = <<>> /\ y_index = <<>>
    /\ vertical_edges = <<>>
    /\ inside = <<>>
    /\ prefix = <<>>
    /\ cheb_points = <<>>
    /\ by_u = <<>> /\ by_v = <<>>
    /\ heap = <<>>
    /\ seen = {}
    /\ fast_mode = FALSE
    /\ iteration_count = 0
    /\ candidates_considered = 0
    /\ total_candidates = 0
    /\ result = <<>>
    /\ pops = <<>>
    /\ validated = <<>>
    /\ last_step = "none"
    /\ query = <<>>
    /\ answer = 0
    /\ tagged_heap = <<>>

\* construct, lines 465-478: the structures built once
BuildStructures ==
    /\ xs' = compress_xs(points)
    /\ ys' = compress_ys(points)
    /\ x_index' = index_of(xs')
    /\ y_index' = index_of(ys')
    /\ vertical_edges' = build_vertical_edges(points)
    /\ inside' = build_inside_grid(xs', ys', vertical_edges')
    /\ prefix' = build_prefix_sums(inside')
    /\ cheb_points' = [k \in DOMAIN points |-> chebyshev_transform(points[k][1], points[k][2])]
    /\ by_u' = SortedByKeyUpTo(Len(points), [k \in DOMAIN points |-> cheb_points'[k][1]])
    /\ by_v' = SortedByKeyUpTo(Len(points), [k \in DOMAIN points |-> cheb_points'[k][2]])

\* the exception construct raises while it lays out the panels, "" when none:
\* line 484 divides by the number of cell columns and of cell rows,
\* line 492 takes max() of the u values, line 494 divides by the larger range
construct_exception(pts) ==
    LET num_cells_x == Len(compress_xs(pts)) - 1
        num_cells_y == Len(compress_ys(pts)) - 1
        us == {pts[k][1] + pts[k][2] : k \in DOMAIN pts}
        vs == {pts[k][1] - pts[k][2] : k \in DOMAIN pts}
    IN  IF num_cells_x = 0 \/ num_cells_y = 0 THEN "ZeroDivisionError"
        ELSE IF pts = <<>> THEN "ValueError"
        ELSE IF Cardinality(us) = 1 /\ Cardinality(vs) = 1 THEN "ZeroDivisionError"
        ELSE ""

ConstructRaises ==
    /\ pc = "construct"
    /\ construct_exception(points) # ""
    /\ BuildStructures
    /\ error' = construct_exception(points)
    /\ pc' = "error"
    /\ UNCHANGED <<tagged_heap, probe, points, heap, seen, fast_mode, iteration_count,
                   candidates_considered, total_candidates, result, pops,
                   validated, last_step>>

\* construct up to its call of run_algorithm: lines 573-574 push the two initial candidates
Construct ==
    /\ pc = "construct"
    /\ construct_exception(points) = ""
    /\ BuildStructures
    /\ seen' = {}
    /\ heap' = LET n == Len(points)
                   h1 == AddCandidate(<<>>, {}, 0, n - 1, "u", by_u')
               IN  AddCandidate(h1, {}, 0, n - 1, "v", by_v')
    /\ tagged_heap' = LET n == Len(points)
                          h1 == TaggedAdd(<<>>, {}, 0, n - 1, "u", by_u', 0)
                      IN  TaggedAdd(h1, {}, 0, n - 1, "v", by_v', Len(h1))
    /\ pc' = "run_algorithm"
    /\ UNCHANGED <<probe, points, error, fast_mode, iteration_count,
                   candidates_considered, total_candidates, result, pops,
                   validated, last_step>>

\* run_algorithm up to its while loop, lines 1035-1076
RunAlgorithm ==
    /\ pc = "run_algorithm"
    /\ total_candidates' = precompute_animation_count
    /\ iteration_count' = 0
    /\ candidates_considered' = 0
    /\ fast_mode' = is_large_input
    /\ pc' = "loop"
    /\ UNCHANGED <<tagged_heap, probe, points, error, built, heap, seen, result, pops, validated, last_step>>

\* whether iteration number k, begun in mode fm, ends in fast mode (line 1089)
fast_mode_after(fm, k) ==
    IF ~is_large_input /\ ~fm /\ k > INTRO_ITERATIONS THEN TRUE ELSE fm

\* whether the pushes of iteration k go through animate_frontier_expansion (line 1182)
animated_expansion(fm, k) ==
    /\ ~is_large_input
    /\ (~fast_mode_after(fm, k) \/ k % ANIMATE_EVERY_N_FAST = 0)

\* the loop reading heap[0] and leaving it in the heap
loop_heap_after_peek(h) == h

\* self.heap after `candidate = heapq.heappop(self.heap)` in the loop
loop_heap_after_pop(h) == heappop_rest(h)

\* an iteration that pops a pair already seen: `continue`
LoopSkip ==
    /\ pc = "loop"
    /\ heap # <<>>
    /\ LET candidate == heappop_item(heap)
       IN  /\ already_seen(<<candidate.i, candidate.j>>, seen)
           /\ heap' = loop_heap_after_pop(heap)
           /\ tagged_heap' = loop_heap_after_pop(tagged_heap)
           /\ pops' = Append(pops, candidate)
    /\ last_step' = "skip"
    /\ UNCHANGED <<probe, points, pc, error, built, seen, fast_mode, iteration_count,
                   candidates_considered, total_candidates, result, validated>>

\* the part every processing iteration shares, lines 1079-1090
Process(candidate) ==
    /\ ~already_seen(<<candidate.i, candidate.j>>, seen)
    /\ seen' = seen \cup {<<candidate.i, candidate.j>>}
    /\ iteration_count' = iteration_count + 1
    /\ candidates_considered' = candidates_considered + 1
    /\ fast_mode' = fast_mode_after(fast_mode, iteration_count + 1)
    /\ pops' = Append(pops, candidate)
    /\ validated' = Append(validated, <<candidate.i, candidate.j>>)

\* an iteration whose candidate is valid: animate_success and return
LoopSuccess ==
    /\ pc = "loop"
    /\ heap # <<>>
    /\ LET candidate == heappop_item(heap)
       IN  /\ Process(candidate)
           /\ is_valid_rectangle(candidate.i, candidate.j)
           /\ heap' = loop_heap_after_pop(heap)
           /\ tagged_heap' = loop_heap_after_pop(tagged_heap)
           /\ result' = <<candidate>>
    /\ pc' = "success"
    /\ last_step' = "success"
    /\ UNCHANGED <<probe, points, error, built, total_candidates>>

\* an iteration whose candidate is invalid, expanded by animate_frontier_expansion
LoopExpandAnimated ==
    /\ pc = "loop"
    /\ heap # <<>>
    /\ LET candidate == heappop_item(heap)
       IN  /\ Process(candidate)
           /\ ~is_valid_rectangle(candidate.i, candidate.j)
           /\ animated_expansion(fast_mode, iteration_count + 1)
           /\ heap' = animate_frontier_expansion(loop_heap_after_pop(heap), seen', candidate)
           /\ tagged_heap' = tagged_expand(loop_heap_after_pop(tagged_heap), seen', candidate,
                                           Len(pops'))
    /\ last_step' = "expand_animated"
    /\ by_u' = ordering_after_expansion(by_u)
    /\ by_v' = ordering_after_expansion(by_v)
    /\ UNCHANGED <<probe, points, pc, error, xs, ys, x_index, y_index, vertical_edges,
                   inside, prefix, cheb_points, total_candidates, result>>

\* an iteration whose candidate is invalid, expanded by the fast path
LoopExpandFast ==
    /\ pc = "loop"
    /\ heap # <<>>
    /\ LET candidate == heappop_item(heap)
       IN  /\ Process(candidate)
           /\ ~is_valid_rectangle(candidate.i, candidate.j)
           /\ ~animated_expansion(fast_mode, iteration_count + 1)
           /\ heap' = expand_fast(loop_heap_after_pop(heap), seen', candidate)
           /\ tagged_heap' = tagged_expand(loop_heap_after_pop(tagged_heap), seen', candidate,
                                           Len(pops'))
    /\ last_step' = "expand_fast"
    /\ by_u' = ordering_after_expansion(by_u)
    /\ by_v' = ordering_after_expansion(by_v)
    /\ UNCHANGED <<probe, points, pc, error, xs, ys, x_index, y_index, vertical_edges,
                   inside, prefix, cheb_points, total_candidates, result>>

\* the heap is empty: show_no_result
LoopExhausted ==
    /\ pc = "loop"
    /\ heap = <<>>
    /\ pc' = "no_result"
    /\ last_step' = "exhausted"
    /\ UNCHANGED <<tagged_heap, probe, points, error, built, heap, seen, fast_mode, iteration_count,
                   candidates_considered, total_candidates, result, pops, validated>>

Next ==
    \/ ConstructRaises
    \/ Construct
    \/ RunAlgorithm
    \/ LoopSkip
    \/ LoopSuccess
    \/ LoopExpandAnimated
    \/ LoopExpandFast
    \/ LoopExhausted

Spec == Init /\ [][Next]_vars

\* one iteration of the while loop of run_algorithm, or its exit
Loop ==
    \/ LoopSkip
    \/ LoopSuccess
    \/ LoopExpandAnimated
    \/ LoopExpandFast
    \/ LoopExhausted

\* the loop is sequential code: while an iteration can be taken, it is taken
FairSpec == Spec /\ WF_vars(Loop)

----------------------------------------------------------------------------
(* build_prefix_sums and count_inside on their own, over every grid *)

\* every grid of at most MaxCellsX lists of the same length, at most MaxCellsY
Grids ==
    UNION {[1..nx -> [1..ny -> BOOLEAN]] : nx \in 0..MaxCellsX, ny \in 0..MaxCellsY}

\* len(inside) and len(inside[0]) if inside else 0
cell_columns(grid) == Len(grid)

cell_rows(grid) == IF grid # <<>> THEN Len(grid[1]) ELSE 0

PrefixInit ==
    /\ inside \in Grids
    /\ pc = "build_prefix_sums"
    /\ points = <<>>
    /\ error = ""
    /\ xs = <<>> /\ ys = <<>>
    /\ x_index = <<>> /\ y_index = <<>>
    /\ vertical_edges = <<>>
    /\ prefix = <<>>
    /\ cheb_points = <<>>
    /\ by_u = <<>> /\ by_v = <<>>
    /\ heap = <<>>
    /\ seen = {}
    /\ fast_mode = FALSE
    /\ iteration_count = 0
    /\ candidates_considered = 0
    /\ total_candidates = 0
    /\ result = <<>>
    /\ pops = <<>>
    /\ validated = <<>>
    /\ last_step = "none"
    /\ query = <<>>
    /\ answer = 0
    /\ tagged_heap = <<>>

\* prefix = build_prefix_sums(inside)
BuildPrefix ==
    /\ pc = "build_prefix_sums"
    /\ prefix' = build_prefix_sums(inside)
    /\ pc' = "count_inside"
    /\ UNCHANGED <<tagged_heap, probe, points, error, xs, ys, x_index, y_index, vertical_edges,
                   inside, cheb_points, by_u, by_v, heap, seen, fast_mode,
                   iteration_count, candidates_considered, total_candidates, result,
                   pops, validated, last_step>>

\* one call count_inside(i1, j1, i2, j2, prefix) for ranks within the grid
QueryPrefix ==
    /\ pc = "count_inside"
    /\ \E i1, i2 \in 0..cell_columns(inside) : \E j1, j2 \in 0..cell_rows(inside) :
         /\ i1 <= i2
         /\ j1 <= j2
         /\ query' = <<i1, j1, i2, j2>>
         /\ answer' = count_inside(i1, j1, i2, j2, prefix)
    /\ pc' = "returned"
    /\ UNCHANGED <<tagged_heap, points, error, built, heap, seen, fast_mode, iteration_count,
                   candidates_considered, total_candidates, result, pops, validated,
                   last_step>>

PrefixNext ==
    \/ BuildPrefix
    \/ QueryPrefix

PrefixSpec == PrefixInit /\ [][PrefixNext]_vars

----------------------------------------------------------------------------
(* chebyshev_transform and manhattan_distance on their own, over signed points *)

\* every point with integer coordinates of absolute value at most MaxAbs
SignedVertex == ((-MaxAbs)..MaxAbs) \X ((-MaxAbs)..MaxAbs)

ChebInit ==
    /\ points \in [1..2 -> SignedVertex]
    /\ pc = "chebyshev_transform"
    /\ error = ""
    /\ xs = <<>> /\ ys = <<>>
    /\ x_index = <<>> /\ y_index = <<>>
    /\ vertical_edges = <<>>
    /\ inside = <<>>
    /\ prefix = <<>>
    /\ cheb_points = <<>>
    /\ by_u = <<>> /\ by_v = <<>>
    /\ heap = <<>>
    /\ seen = {}
    /\ fast_mode = FALSE
    /\ iteration_count = 0
    /\ candidates_considered = 0
    /\ total_candidates = 0
    /\ result = <<>>
    /\ pops = <<>>
    /\ validated = <<>>
    /\ last_step = "none"
    /\ query = <<>>
    /\ answer = 0
    /\ tagged_heap = <<>>

\* cheb_points = [chebyshev_transform(p[0], p[1]) for p in points]
TransformPoints ==
    /\ pc = "chebyshev_transform"
    /\ cheb_points' = [k \in DOMAIN points |-> chebyshev_transform(points[k][1], points[k][2])]
    /\ pc' = "manhattan_distance"
    /\ UNCHANGED <<tagged_heap, query, answer, points, error, xs, ys, x_index, y_index,
                   vertical_edges, inside, prefix, by_u, by_v, heap, seen, fast_mode,
                   iteration_count, candidates_considered, total_candidates, result,
                   pops, validated, last_step>>

\* one call manhattan_distance(points[0], points[1])
MeasureDistance ==
    /\ pc = "manhattan_distance"
    /\ answer' = manhattan_distance(points[1], points[2])
    /\ pc' = "returned"
    /\ UNCHANGED <<tagged_heap, query, points, error, built, heap, seen, fast_mode,
                   iteration_count, candidates_considered, total_candidates, result,
                   pops, validated, last_step>>

ChebNext ==
    \/ TransformPoints
    \/ MeasureDistance

ChebSpec == ChebInit /\ [][ChebNext]_vars

----------------------------------------------------------------------------
(* Vocabulary of the properties *)

Terminal == pc \in {"success", "no_result", "error"}

SearchEnded == pc \in {"success", "no_result"}

VertexPairs ==
    {p \in (0..(Len(points) - 1)) \X (0..(Len(points) - 1)) : p[1] < p[2]}

PairDistance(p) == manhattan_distance(points[p[1] + 1], points[p[2] + 1])

\* pairs the validator accepts (defined once construct has built the tables)
ValidPairs == {p \in VertexPairs : is_valid_rectangle(p[1], p[2])}

MaxValidDistance ==
    CHOOSE d \in {PairDistance(p) : p \in ValidPairs} :
        \A q \in ValidPairs : PairDistance(q) <= d

\* rank of a coordinate, counted on the axis itself
RankOn(axis, v) == Cardinality({k \in DOMAIN axis : axis[k] < v})

\* the rectangle of vertices i and j recounted cell by cell on the inside grid
BruteForceInside(i, j) ==
    LET x1 == points[i + 1][1]
        y1 == points[i + 1][2]
        x2 == points[j + 1][1]
        y2 == points[j + 1][2]
    IN  /\ x1 # x2
        /\ y1 # y2
        /\ \A a \in RankOn(xs, Min2(x1, x2))..(RankOn(xs, Max2(x1, x2)) - 1) :
             \A b \in RankOn(ys, Min2(y1, y2))..(RankOn(ys, Max2(y1, y2)) - 1) :
                inside[a + 1][b + 1]

\* number of grid cells in the rank rectangle of vertices i and j
RankCells(i, j) ==
    (RankOn(xs, Max2(points[i + 1][1], points[j + 1][1]))
        - RankOn(xs, Min2(points[i + 1][1], points[j + 1][1])))
    * (RankOn(ys, Max2(points[i + 1][2], points[j + 1][2]))
        - RankOn(ys, Min2(points[i + 1][2], points[j + 1][2])))

\* the precondition of the design: a simple polygon with axis-aligned edges
IsSimplePolygon(pts) ==
    LET n == Len(pts)
        Nxt(k) == (k % n) + 1
        Vertical(k) == pts[k][1] = pts[Nxt(k)][1]
        Horizontal(k) == pts[k][2] = pts[Nxt(k)][2]
        Seg(k) == (Min2(pts[k][1], pts[Nxt(k)][1])..Max2(pts[k][1], pts[Nxt(k)][1]))
                  \X (Min2(pts[k][2], pts[Nxt(k)][2])..Max2(pts[k][2], pts[Nxt(k)][2]))
    IN  /\ n >= 4
        /\ \A k \in 1..n : Vertical(k) # Horizontal(k)
        /\ \A k \in 1..n : Vertical(k) # Vertical(Nxt(k))
        /\ \A k \in 1..n : \A m \in (k + 1)..n :
             Seg(k) \cap Seg(m) = IF m = Nxt(k) THEN {pts[m]}
                                  ELSE IF k = Nxt(m) THEN {pts[k]}
                                  ELSE {}

\* the measure that bounds the loop: two per pair not yet seen, one per heap entry
Variant ==
    2 * ((Len(points) * (Len(points) - 1)) \div 2 - Cardinality(seen)) + Len(heap)

----------------------------------------------------------------------------
(* Properties *)

\* C1: on a simple polygon, the pair the search stops on has the largest Manhattan
\* distance among all vertex pairs that is_valid_rectangle accepts.
C1_Optimality ==
    (pc = "success" /\ IsSimplePolygon(points))
        => result[1].distance = MaxValidDistance

\* C2: the pair of a successful run differs in x and in y, and every cell of its
\* rank rectangle is interior when recounted directly on the inside grid.
C2_ResultSound ==
    pc = "success" => BruteForceInside(result[1].i, result[1].j)

C2_Witness ==
    /\ pc = "success"
    /\ RankCells(result[1].i, result[1].j) >= 2
    /\ Len(validated) >= 2

\* C3: the search ends in show_no_result only if is_valid_rectangle accepts no
\* vertex pair at all.
C3_NoSolutionComplete ==
    pc = "no_result" => ValidPairs = {}

\* C4: the search loop stops: every iteration that stays in the loop lowers a
\* measure that is never negative, and a run in the loop reaches success or
\* exhaustion.
C4_Termination ==
    /\ [][(pc = "loop" /\ pc' = "loop") => Variant' < Variant]_vars
    /\ [](pc = "loop" => Variant >= 0)
    /\ [](pc = "loop" => <>SearchEnded)

C4_Witness ==
    /\ SearchEnded
    /\ Len(pops) >= 10
    /\ Len(validated) < Len(pops)

\* C5: with fewer than 3 vertices the run ends as invalid input: nothing is
\* pushed, popped or validated and the run never reaches the search or NoSolution.
C5_InvalidInput ==
    Len(points) < 3 =>
        /\ heap = <<>>
        /\ pops = <<>>
        /\ validated = <<>>
        /\ pc \notin {"run_algorithm", "loop", "success", "no_result"}

\* C6: on a simple polygon, every popped candidate has a distance no larger than
\* the candidate popped before it.
C6_PopsMonotone ==
    (Len(pops) >= 2 /\ IsSimplePolygon(points)) =>
        \A k \in 1..(Len(pops) - 1) : pops[k + 1].distance <= pops[k].distance

\* C7: no pair is validated twice, and an iteration that pops a pair already seen
\* validates nothing, counts nothing, marks nothing and pushes nothing.
C7_NoDuplicateProcessing ==
    /\ [](\A a, b \in DOMAIN validated : validated[a] = validated[b] => a = b)
    /\ [][(pc = "loop" /\ heap # <<>>
             /\ <<heappop_item(heap).i, heappop_item(heap).j>> \in seen)
          => /\ validated' = validated
             /\ candidates_considered' = candidates_considered
             /\ seen' = seen
             /\ Len(heap') = Len(heap) - 1]_vars

C7_Witness ==
    /\ last_step = "skip"
    /\ \E a, b \in DOMAIN pops :
         /\ a < b
         /\ pops[a].i = pops[b].i
         /\ pops[a].j = pops[b].j
         /\ pops[a].source # pops[b].source
    /\ \E a, b \in DOMAIN heap :
         a # b /\ heap[a].i = heap[b].i /\ heap[a].j = heap[b].j

\* C8: on a simple polygon whose largest valid distance D is also the distance of
\* an invalid pair, the search ends in success with a pair of distance D.
C8_TiesKeepOptimum ==
    (/\ SearchEnded
     /\ IsSimplePolygon(points)
     /\ ValidPairs # {}
     /\ \E p \in VertexPairs \ ValidPairs : PairDistance(p) = MaxValidDistance)
        => (pc = "success" /\ result[1].distance = MaxValidDistance)

\* C9: for the square (0,0),(4,0),(4,4),(0,4) the run neither raises nor ends in
\* NoSolution, and its success is on vertices 0 and 2, the corners (0,0) and
\* (4,4), at distance 8, a pair the validator accepts.
C9_ScenarioA ==
    points = SquareA =>
        /\ pc \notin {"error", "no_result"}
        /\ pc = "success" =>
             /\ result[1].i = 0
             /\ result[1].j = 2
             /\ points[result[1].i + 1] = <<0, 0>>
             /\ points[result[1].j + 1] = <<4, 4>>
             /\ result[1].distance = 8
             /\ is_valid_rectangle(0, 2)

C9_Witness == points = SquareA /\ pc = "success"

\* C10: three distinct vertices of which every two share an x or a y: the run
\* validates candidates, exhausts the heap and ends in NoSolution without raising.
C10_ScenarioC ==
    (/\ Terminal
     /\ Len(points) = 3
     /\ \A a, b \in 1..3 :
          a # b => /\ points[a] # points[b]
                   /\ (points[a][1] = points[b][1] \/ points[a][2] = points[b][2]))
        => (pc = "no_result" /\ error = "" /\ validated # <<>>)

\* the pair of vertices i and j has a zero-width or zero-height rectangle
SharesCoordinate(i, j) ==
    points[i + 1][1] = points[j + 1][1] \/ points[i + 1][2] = points[j + 1][2]

\* the structures of construct exist
Built == pc # "construct"

\* the state construct leaves behind; no later step changes the vertex list or
\* the structures built from it
AfterConstruct == pc \in {"run_algorithm", "error"}

\* C11: for two vertices that differ in x and in y, is_valid_rectangle is true
\* exactly when the prefix-table count over the rank rectangle [i1,i2) x [j1,j2)
\* equals (i2-i1)*(j2-j1), and exactly when every cell of that rectangle is
\* interior on the inside grid.
C11_ValidatorContract ==
    AfterConstruct =>
        \A i, j \in 0..(Len(points) - 1) :
            ~SharesCoordinate(i, j) =>
                LET i1 == x_index[Min2(points[i + 1][1], points[j + 1][1])]
                    i2 == x_index[Max2(points[i + 1][1], points[j + 1][1])]
                    j1 == y_index[Min2(points[i + 1][2], points[j + 1][2])]
                    j2 == y_index[Max2(points[i + 1][2], points[j + 1][2])]
                IN  /\ is_valid_rectangle(i, j)
                          <=> (count_inside(i1, j1, i2, j2, prefix) = (i2 - i1) * (j2 - j1))
                    /\ is_valid_rectangle(i, j)
                          <=> (\A a \in i1..(i2 - 1) : \A b \in j1..(j2 - 1) :
                                  inside[a + 1][b + 1])

C11_Witness ==
    /\ AfterConstruct
    /\ \E p \in VertexPairs :
         /\ is_valid_rectangle(p[1], p[2])
         /\ RankCells(p[1], p[2]) >= 2
    /\ \E p \in VertexPairs :
         /\ ~SharesCoordinate(p[1], p[2])
         /\ ~is_valid_rectangle(p[1], p[2])
         /\ \E a \in DOMAIN inside : \E b \in DOMAIN inside[a] : inside[a][b]

\* C12: for two vertices that share an x or a y, is_valid_rectangle is false and
\* reads nothing from the prefix table; a loop iteration that pops such a pair
\* unseen marks it seen, pushes its two sub-ranges and stays in the loop without
\* an error or a result.
C12_DegenerateCandidates ==
    /\ [](Built =>
            \A i, j \in 0..(Len(points) - 1) :
                SharesCoordinate(i, j) =>
                    (~is_valid_rectangle(i, j) /\ prefix_queries(i, j) = 0))
    /\ [][(/\ pc = "loop"
           /\ heap # <<>>
           /\ <<heappop_item(heap).i, heappop_item(heap).j>> \notin seen
           /\ SharesCoordinate(heappop_item(heap).i, heappop_item(heap).j))
          => LET candidate == heappop_item(heap)
                 pair == <<candidate.i, candidate.j>>
             IN  /\ pc' = "loop"
                 /\ error' = ""
                 /\ result' = <<>>
                 /\ seen' = seen \cup {pair}
                 /\ validated' = Append(validated, pair)
                 /\ heap' = expand_fast(heappop_rest(heap), seen \cup {pair}, candidate)]_vars

C12_Witness ==
    /\ pc = "loop"
    /\ last_step \in {"expand_animated", "expand_fast"}
    /\ validated # <<>>
    /\ SharesCoordinate(validated[Len(validated)][1], validated[Len(validated)][2])
    /\ validated[Len(validated)] \in seen
    /\ Len(heap) >= 2

\* true cells of the grid in [i1,i2) x [j1,j2), counted one by one
DirectCount(grid, i1, j1, i2, j2) ==
    Cardinality({c \in (i1..(i2 - 1)) \X (j1..(j2 - 1)) : grid[c[1] + 1][c[2] + 1]})

\* C13: for every grid and all ranks 0 <= i1 <= i2 <= columns, 0 <= j1 <= j2 <= rows,
\* count_inside on the table of build_prefix_sums returns the number of true cells
\* of the grid in [i1,i2) x [j1,j2) counted one by one.
C13_PrefixSumQuery ==
    query # <<>> =>
        answer = DirectCount(inside, query[1], query[2], query[3], query[4])

C13_Witness ==
    /\ query # <<>>
    /\ query[1] >= 1
    /\ query[2] >= 1
    /\ query[3] >= query[1] + 2
    /\ query[4] >= query[2] + 1
    /\ answer = 1
    /\ inside[1][1]
    /\ prefix[query[1] + 1][query[2] + 1] >= 1

\* the axis is strictly increasing, holds exactly the values, and the index maps
\* each value to its position, in numeric order
CompressedAxis(axis, index, values) ==
    /\ \A k \in 1..(Len(axis) - 1) : axis[k] < axis[k + 1]
    /\ Range(axis) = values
    /\ DOMAIN index = values
    /\ \A a \in values :
         /\ index[a] \in 0..(Len(axis) - 1)
         /\ axis[index[a] + 1] = a
    /\ \A a, b \in values :
         /\ a < b => index[a] < index[b]
         /\ a # b => index[a] # index[b]

\* C14: for a non-empty vertex list, xs and ys are strictly increasing and hold
\* exactly the input's x and y values, and x_index / y_index map each value to a
\* unique rank below the axis length, in numeric order, with xs[x_index[a]] = a.
C14_CoordinateCompression ==
    (AfterConstruct /\ points # <<>>) =>
        /\ CompressedAxis(xs, x_index, {points[k][1] : k \in DOMAIN points})
        /\ CompressedAxis(ys, y_index, {points[k][2] : k \in DOMAIN points})

C14_Witness ==
    /\ AfterConstruct
    /\ Len(xs) >= 3
    /\ Len(xs) < Len(points)
    /\ \E k \in 1..(Len(xs) - 1) : xs[k + 1] > xs[k] + 1
    /\ \E k \in 1..(Len(points) - 1) : points[k][1] > points[k + 1][1]
    /\ \E k \in 1..(Len(points) - 1) : points[k][2] > points[k + 1][2]

\* the area animate_success displays for the rectangle of vertices i and j
DisplayedArea(i, j) ==
    (Abs(points[j + 1][1] - points[i + 1][1]) + 1)
        * (Abs(points[j + 1][2] - points[i + 1][2]) + 1)

\* C15: on a simple polygon, when the search succeeds on a pair of the largest
\* valid distance, the displayed area of that pair is at least the area of every
\* vertex pair that is_valid_rectangle accepts.
C15_LargestArea ==
    (/\ pc = "success"
     /\ IsSimplePolygon(points)
     /\ result[1].distance = MaxValidDistance)
        => \A p \in ValidPairs :
              DisplayedArea(result[1].i, result[1].j) >= DisplayedArea(p[1], p[2])

RECURSIVE nodedup_loop(_)
\* the loop of the search with no seen-set at all: the distance it succeeds on,
\* -1 when it exhausts the heap
nodedup_loop(h) ==
    IF h = <<>> THEN -1
    ELSE LET candidate == heappop_item(h)
         IN  IF is_valid_rectangle(candidate.i, candidate.j)
             THEN candidate.distance
             ELSE nodedup_loop(expand_fast(heappop_rest(h), {}, candidate))

\* outcome of the search run without deduplication on the same vertex list
NoDedupOutcome ==
    LET n == Len(points)
        h1 == AddCandidate(<<>>, {}, 0, n - 1, "u", by_u)
    IN  nodedup_loop(AddCandidate(h1, {}, 0, n - 1, "v", by_v))

\* outcome of the run: the distance it succeeded on, -1 for NoSolution
Outcome == IF pc = "success" THEN result[1].distance ELSE -1

\* C17: the search ends with the same outcome (success with the same distance,
\* or NoSolution) as the same search run without the seen-set.
C17_SeenSetRefinement ==
    SearchEnded => Outcome = NoDedupOutcome

\* the heap after pushing the range (left, right) of the ordering of `source`, if
\* the range holds two ranks and its canonical pair is not in sn; h otherwise
PushedRange(h, sn, source, left, right) ==
    LET ordering == IF source = "u" THEN by_u ELSE by_v
        a == ordering[left + 1]
        b == ordering[right + 1]
        pair == <<Min2(a, b), Max2(a, b)>>
    IN  IF left < right /\ pair \notin sn
        THEN heappush(h, [distance |-> Abs(points[a + 1][1] - points[b + 1][1])
                                         + Abs(points[a + 1][2] - points[b + 1][2]),
                          i |-> pair[1], j |-> pair[2],
                          source |-> source, left |-> left, right |-> right])
        ELSE h

\* C18: an iteration that pops an unseen, invalid candidate (source d, left l,
\* right r) leaves the heap as the popped heap with (l+1, r) pushed and then
\* (l, r-1) pushed, both of source d, each only if its range is non-empty and its
\* pair is not in the seen-set; and in every loop state the pushes of
\* animate_frontier_expansion and of the fast path give the same heap.
C18_RelaxationStep ==
    /\ [][(/\ pc = "loop"
           /\ heap # <<>>
           /\ <<heappop_item(heap).i, heappop_item(heap).j>> \notin seen
           /\ ~is_valid_rectangle(heappop_item(heap).i, heappop_item(heap).j))
          => LET candidate == heappop_item(heap)
                 sn == seen \cup {<<candidate.i, candidate.j>>}
                 first == PushedRange(heappop_rest(heap), sn, candidate.source,
                                      candidate.left + 1, candidate.right)
             IN  /\ seen' = sn
                 /\ heap' = PushedRange(first, sn, candidate.source,
                                        candidate.left, candidate.right - 1)]_vars
    /\ [](pc = "loop" /\ heap # <<>> =>
            LET candidate == heappop_item(heap)
                sn == seen \cup {<<candidate.i, candidate.j>>}
            IN  animate_frontier_expansion(heappop_rest(heap), sn, candidate)
                    = expand_fast(heappop_rest(heap), sn, candidate))

C18_Witness ==
    /\ pc = "loop"
    /\ last_step = "expand_fast"
    /\ Len(validated) > INTRO_ITERATIONS
    /\ LET candidate == pops[Len(pops)]
       IN  /\ \E k \in DOMAIN heap :
                /\ heap[k].source = candidate.source
                /\ heap[k].left = candidate.left + 1
                /\ heap[k].right = candidate.right
           /\ \E k \in DOMAIN heap :
                /\ heap[k].source = candidate.source
                /\ heap[k].left = candidate.left
                /\ heap[k].right = candidate.right - 1

\* the run is between the two pushes of construct and the first pop of the loop
BeforeFirstPop == pc \in {"run_algorithm", "loop"} /\ pops = <<>>

\* C19: for n >= 2 vertices, from the pushes of construct to the first pop the
\* heap holds exactly two candidates, one of source "u" on the ends of by_u and
\* one of source "v" on the ends of by_v, each with left = 0 and right = n-1,
\* and the seen-set is empty, also when both have the same canonical pair.
C19_InitialState ==
    (Len(points) >= 2 /\ BeforeFirstPop) =>
        LET n == Len(points) IN
        /\ seen = {}
        /\ Len(heap) = 2
        /\ \E k, m \in 1..2 :
             /\ k # m
             /\ heap[k].source = "u"
             /\ {heap[k].i, heap[k].j} = {by_u[1], by_u[n]}
             /\ heap[m].source = "v"
             /\ {heap[m].i, heap[m].j} = {by_v[1], by_v[n]}
        /\ \A k \in 1..2 : heap[k].left = 0 /\ heap[k].right = n - 1

C19_Witness ==
    /\ Len(points) = 3
    /\ \A a, b \in 1..3 : a # b => points[a] # points[b]
    /\ BeforeFirstPop
    /\ Len(heap) = 2
    /\ heap[1].i = heap[2].i
    /\ heap[1].j = heap[2].j
    /\ heap[1].source # heap[2].source

\* C20: every candidate in the heap has 0 <= left < right <= n-1 and i < j, its
\* i and j are the vertices at ranks left and right of the ordering of its
\* source, and its distance is |x_i - x_j| + |y_i - y_j|.
C20_CandidateInvariant ==
    \A k \in DOMAIN heap :
        LET c == heap[k]
            ordering == IF c.source = "u" THEN by_u ELSE by_v
        IN  /\ c.source \in {"u", "v"}
            /\ 0 <= c.left
            /\ c.left < c.right
            /\ c.right <= Len(points) - 1
            /\ c.i < c.j
            /\ {c.i, c.j} = {ordering[c.left + 1], ordering[c.right + 1]}
            /\ c.distance = Abs(points[c.i + 1][1] - points[c.j + 1][1])
                              + Abs(points[c.i + 1][2] - points[c.j + 1][2])

C20_Witness ==
    /\ pc = "loop"
    /\ Len(heap) >= 4
    /\ \E k \in DOMAIN heap : heap[k].source = "u" /\ heap[k].left >= 2
    /\ \E k \in DOMAIN heap : heap[k].source = "v" /\ heap[k].right <= Len(points) - 3
    /\ \E k \in DOMAIN heap : heap[k].left + 1 = heap[k].right
    /\ \E k \in DOMAIN heap : by_u[heap[k].left + 1] > by_u[heap[k].right + 1]

\* one iteration of the loop of run_algorithm as a function of the heap and the
\* seen-set alone: what it pops, what it leaves, and the candidate it succeeds on
replay_step(h, sn) ==
    LET candidate == heappop_item(h)
        rest == heappop_rest(h)
        pair == <<candidate.i, candidate.j>>
    IN  IF pair \in sn
        THEN [popped |-> candidate, heap |-> rest, seen |-> sn,
              outcome |-> <<>>, ended |-> FALSE]
        ELSE IF is_valid_rectangle(candidate.i, candidate.j)
             THEN [popped |-> candidate, heap |-> rest, seen |-> sn \cup {pair},
                   outcome |-> <<candidate>>, ended |-> TRUE]
             ELSE [popped |-> candidate,
                   heap |-> expand_fast(rest, sn \cup {pair}, candidate),
                   seen |-> sn \cup {pair}, outcome |-> <<>>, ended |-> FALSE]

RECURSIVE replay(_, _, _)
\* the loop replayed from a heap and a seen-set: the candidates popped (after
\* those in `popped`) and the candidate it succeeds on
replay(h, sn, popped) ==
    IF h = <<>> THEN [pops |-> popped, outcome |-> <<>>]
    ELSE LET r == replay_step(h, sn)
         IN  IF r.ended
             THEN [pops |-> Append(popped, r.popped), outcome |-> r.outcome]
             ELSE replay(r.heap, r.seen, Append(popped, r.popped))

\* a second run of the search on the same vertex list
SecondRun ==
    LET n == Len(points)
        h1 == AddCandidate(<<>>, {}, 0, n - 1, "u", by_u)
    IN  replay(AddCandidate(h1, {}, 0, n - 1, "v", by_v), {}, <<>>)

\* C16: a second run on the same vertex list pops the same sequence of
\* candidates and ends in the same outcome as the run, and every iteration of
\* the loop is determined by the heap and the seen-set alone (not by the
\* iteration count or by fast_mode).
C16_Determinism ==
    /\ [](SearchEnded => [pops |-> pops, outcome |-> result] = SecondRun)
    /\ [][(pc = "loop" /\ heap # <<>>)
          => LET r == replay_step(heap, seen)
             IN  /\ pops' = Append(pops, r.popped)
                 /\ heap' = r.heap
                 /\ seen' = r.seen
                 /\ result' = r.outcome
                 /\ (pc' = "success") = r.ended
                 /\ pc' \in {"loop", "success"}]_vars

C16_Witness ==
    /\ pc = "success"
    /\ Len(pops) >= 8
    /\ Len(validated) < Len(pops)
    /\ fast_mode
    /\ \E k \in 1..(Len(pops) - 1) : pops[k].distance = pops[k + 1].distance

\* the numbered heap without its numbers
Untagged(th) ==
    [k \in DOMAIN th |->
        [distance |-> th[k].distance, i |-> th[k].i, j |-> th[k].j,
         source |-> th[k].source, left |-> th[k].left, right |-> th[k].right]]

\* the numbered heap is the heap, and the numbers are those of the pushes
TaggedHeapIsHeap ==
    /\ Untagged(tagged_heap) = heap
    /\ \A k, m \in DOMAIN tagged_heap : k # m => tagged_heap[k].seq # tagged_heap[m].seq
    /\ \A k \in DOMAIN tagged_heap : tagged_heap[k].seq < Len(pops) + Len(heap)

\* C21: on a simple polygon, the candidate the loop pops next was pushed before
\* every candidate of the same distance that is in the heap with it.
C21_StableTies ==
    (pc = "loop" /\ heap # <<>> /\ IsSimplePolygon(points)) =>
        \A k \in DOMAIN tagged_heap :
            tagged_heap[k].distance = heappop_item(tagged_heap).distance
                => heappop_item(tagged_heap).seq <= tagged_heap[k].seq

\* C22: for all points p and q with coordinates between -MaxAbs and MaxAbs,
\* manhattan_distance(p, q) = max(|u_p - u_q|, |v_p - v_q|) with
\* (u, v) = chebyshev_transform(x, y), and (u, v) = (x + y, x - y).
C22_ChebyshevIdentity ==
    pc = "returned" =>
        /\ answer = Max2(Abs(cheb_points[1][1] - cheb_points[2][1]),
                         Abs(cheb_points[1][2] - cheb_points[2][2]))
        /\ \A k \in 1..2 :
             cheb_points[k] = <<points[k][1] + points[k][2], points[k][1] - points[k][2]>>

C22_Witness ==
    /\ pc = "returned"
    /\ points[1][1] < 0
    /\ points[2][2] < 0
    /\ points[2][1] > 0
    /\ answer = 2 * MaxAbs + 1
    /\ Abs(cheb_points[1][1] - cheb_points[2][1]) < Abs(cheb_points[1][2] - cheb_points[2][2])

\* the vertices of S whose coordinate c of cheb_points is largest (sign = 1) or
\* smallest (sign = -1)
Extremes(S, c, sign) ==
    {a \in S : \A b \in S : sign * cheb_points[a + 1][c] >= sign * cheb_points[b + 1][c]}

\* the largest Manhattan distance between two vertices of S
MaxDistanceIn(S) ==
    LET distances == {manhattan_distance(points[a + 1], points[b + 1]) : a, b \in S}
    IN  CHOOSE d \in distances : \A e \in distances : e <= d

\* C23: for every set S of at least two vertices, the largest Manhattan distance
\* within S is the larger of the distance between a max-u and a min-u vertex of S
\* and the distance between a max-v and a min-v vertex of S (whichever vertices
\* are taken among equal u or v); and the larger of the two initial candidates
\* has the largest distance over all vertex pairs.
C23_ExtremesSuffice ==
    /\ (AfterConstruct /\ Len(points) >= 2) =>
          \A S \in SUBSET (0..(Len(points) - 1)) :
              Cardinality(S) >= 2 =>
                  LET largest == MaxDistanceIn(S)
                      max_u == Extremes(S, 1, 1)
                      min_u == Extremes(S, 1, -1)
                      max_v == Extremes(S, 2, 1)
                      min_v == Extremes(S, 2, -1)
                  IN  \A a \in max_u, b \in min_u, c \in max_v, d \in min_v :
                          Max2(manhattan_distance(points[a + 1], points[b + 1]),
                               manhattan_distance(points[c + 1], points[d + 1]))
                              = largest
    /\ (pc = "run_algorithm" /\ Len(points) >= 2) =>
          Max2(heap[1].distance, heap[2].distance)
              = MaxDistanceIn(0..(Len(points) - 1))

C23_Witness ==
    /\ pc = "run_algorithm"
    /\ Len(points) >= 6
    /\ heap[1].distance # heap[2].distance
    /\ \E a, b \in DOMAIN cheb_points : a # b /\ cheb_points[a][1] = cheb_points[b][1]
    /\ \E a, b \in DOMAIN cheb_points : a # b /\ cheb_points[a][2] = cheb_points[b][2]

\* ordering is a permutation of 0..n-1, non-decreasing in coordinate c of
\* cheb_points, with equal values in the order of the vertex indices
StableOrdering(ordering, c) ==
    /\ Len(ordering) = Len(points)
    /\ Range(ordering) = 0..(Len(points) - 1)
    /\ \A k, m \in DOMAIN ordering :
         k < m =>
            /\ cheb_points[ordering[k] + 1][c] <= cheb_points[ordering[m] + 1][c]
            /\ cheb_points[ordering[k] + 1][c] = cheb_points[ordering[m] + 1][c]
                  => ordering[k] < ordering[m]

\* C24: by_u and by_v are permutations of 0..n-1, non-decreasing in u (resp. v),
\* and of two vertices with equal u (resp. v) the one with the smaller index
\* comes first.
C24_Orderings ==
    AfterConstruct => (StableOrdering(by_u, 1) /\ StableOrdering(by_v, 2))

C24_Witness ==
    /\ AfterConstruct
    /\ Len(points) >= 6
    /\ \E k \in 1..(Len(by_u) - 1) :
         /\ cheb_points[by_u[k] + 1][1] = cheb_points[by_u[k + 1] + 1][1]
         /\ by_u[k + 1] > by_u[k] + 1
    /\ \E k \in 1..(Len(by_v) - 1) :
         cheb_points[by_v[k] + 1][2] = cheb_points[by_v[k + 1] + 1][2]
    /\ \E k \in 1..(Len(by_u) - 1) : by_u[k] > by_u[k + 1]
    /\ by_u # by_v

\* edges of the closed path through points, as pairs of end points
PolygonEdges ==
    {<<points[k], points[(k % Len(points)) + 1]>> : k \in DOMAIN points}

\* twice the centre of cell (i, j)
CentreTwice(i, j) == <<xs[i + 1] + xs[i + 2], ys[j + 1] + ys[j + 2]>>

\* the ray from the centre of cell (i, j) towards +x crosses an odd number of
\* vertical edges
CentreRayRightOdd(i, j) ==
    LET c == CentreTwice(i, j)
        crossed == {e \in PolygonEdges :
                      /\ e[1][1] = e[2][1]
                      /\ 2 * e[1][1] > c[1]
                      /\ 2 * Min2(e[1][2], e[2][2]) <= c[2]
                      /\ c[2] < 2 * Max2(e[1][2], e[2][2])}
    IN  Cardinality(crossed) % 2 = 1

\* the ray from the centre of cell (i, j) towards +y crosses an odd number of
\* horizontal edges
CentreRayUpOdd(i, j) ==
    LET c == CentreTwice(i, j)
        crossed == {e \in PolygonEdges :
                      /\ e[1][2] = e[2][2]
                      /\ 2 * e[1][2] > c[2]
                      /\ 2 * Min2(e[1][1], e[2][1]) <= c[1]
                      /\ c[1] < 2 * Max2(e[1][1], e[2][1])}
    IN  Cardinality(crossed) % 2 = 1

\* C25: for a simple rectilinear polygon, inside[i][j] is true exactly when the
\* centre of the cell between xs[i], xs[i+1] and ys[j], ys[j+1] is inside the
\* polygon: a ray from the centre towards +x crosses an odd number of vertical
\* edges, and so does a ray from the centre towards +y with the horizontal edges.
C25_InteriorGrid ==
    (AfterConstruct /\ IsSimplePolygon(points)) =>
        \A i \in 0..(Len(xs) - 2) : \A j \in 0..(Len(ys) - 2) :
            /\ inside[i + 1][j + 1] = CentreRayRightOdd(i, j)
            /\ inside[i + 1][j + 1] = CentreRayUpOdd(i, j)

C25_Witness ==
    /\ AfterConstruct
    /\ IsSimplePolygon(points)
    /\ Len(xs) >= 5
    /\ Len(ys) >= 4
    /\ \E i \in 2..(Len(inside) - 1) : \E j \in DOMAIN inside[i] :
         inside[i][j] /\ ~inside[i][1]
    /\ \E i \in DOMAIN inside : ~inside[i][1] /\ inside[i][2]
    /\ ~inside[1][1]

\* C26: for a non-empty vertex list the prefix table has |xs| rows of |ys|
\* columns, and entry (i, j) is the number of interior cells in [0,i) x [0,j).
C26_PrefixTableShape ==
    (AfterConstruct /\ points # <<>>) =>
        /\ Len(prefix) = Len(xs)
        /\ \A i \in DOMAIN prefix :
             /\ Len(prefix[i]) = Len(ys)
             /\ \A j \in DOMAIN prefix[i] :
                  prefix[i][j] = DirectCount(inside, 0, 0, i - 1, j - 1)

\* C27: for n >= 3 distinct vertices, a run that has ended validated fewer than
\* n(n-1)/2 canonical pairs.
C27_NoExhaustiveEnumeration ==
    (/\ SearchEnded
     /\ Len(points) >= 3
     /\ \A a, b \in DOMAIN points : a # b => points[a] # points[b]) =>
        Len(validated) < (Len(points) * (Len(points) - 1)) \div 2

\* C28: no step of run_algorithm changes points, xs, ys, x_index, y_index, inside,
\* prefix, cheb_points, by_u or by_v.
C28_StructuresReadOnly ==
    [][(pc \in {"run_algorithm", "loop"})
         => (<<points, xs, ys, x_index, y_index, inside, prefix, cheb_points, by_u, by_v>>'
               = <<points, xs, ys, x_index, y_index, inside, prefix, cheb_points, by_u,
                   by_v>>)]_vars

C28_Witness ==
    /\ pc = "loop"
    /\ last_step = "expand_fast"
    /\ Cardinality(seen) >= 5
    /\ Len(heap) >= 3
    /\ \E k \in 1..(Len(pops) - 1) : pops[k].source = "u" /\ pops[k + 1].source = "v"
    /\ \E i \in DOMAIN inside : \E j \in DOMAIN inside[i] : inside[i][j]

\* C29: the dry run processes the same sequence of canonical pairs as the loop
\* and leaves self.heap and self.seen as they were; candidates_considered never
\* exceeds total_candidates during the run and equals it when the run has ended.
C29_DryRunAgrees ==
    /\ [][(pc = "run_algorithm") => (heap' = heap /\ seen' = seen)]_vars
    /\ [](pc \in {"loop", "success", "no_result"} =>
            /\ candidates_considered = Len(validated)
            /\ candidates_considered <= total_candidates)
    /\ [](SearchEnded =>
            /\ candidates_considered = total_candidates
            /\ validated = dry_run_pairs)

C29_Witness ==
    /\ SearchEnded
    /\ total_candidates >= 6
    /\ Len(pops) > total_candidates
    /\ validated = dry_run_pairs

\* C30: every run of run_algorithm ends in exactly one terminal outcome, once:
\* the loop reaches animate_success or show_no_result, and no step pops, pushes
\* or validates afterwards; animate_success is reached only from an iteration
\* whose candidate is_valid_rectangle has just accepted, show_no_result only from
\* an empty heap; at the outcome candidates_considered is the size of the seen-set.
C30_OneTerminalOutcome ==
    /\ [](pc = "loop" => <>SearchEnded)
    /\ [][~SearchEnded]_vars
    /\ [][(pc' = "success") =>
            /\ pc = "loop"
            /\ heap # <<>>
            /\ result' = <<heappop_item(heap)>>
            /\ is_valid_rectangle(heappop_item(heap).i, heappop_item(heap).j)
            /\ validated' = Append(validated, <<heappop_item(heap).i, heappop_item(heap).j>>)
            /\ pops' = Append(pops, heappop_item(heap))]_vars
    /\ [][(pc' = "no_result") =>
            /\ pc = "loop"
            /\ heap = <<>>
            /\ result' = <<>>
            /\ <<heap, seen, pops, validated>>' = <<heap, seen, pops, validated>>]_vars
    /\ [](SearchEnded =>
            /\ candidates_considered = Cardinality(seen)
            /\ (pc = "success") = (result # <<>>))

C30_Witness ==
    /\ pc = "success"
    /\ heap # <<>>
    /\ Len(pops) > Len(validated)
    /\ candidates_considered = Cardinality(seen)
    /\ candidates_considered >= 5
    /\ validated[Len(validated)] = <<result[1].i, result[1].j>>

====
